---- MODULE Spec2Model ----
(***************************************************************************)
(* Motion3D Transformer service: the FastAPI handlers of                   *)
(* backend/inference/api.py, the Motion3DPredictor they drive              *)
(* (backend/inference/predictor.py) and the ModelManager singleton         *)
(* (backend/models/model_loader.py).                                       *)
(*                                                                         *)
(* Scheduling.  Every handler and the background worker are `async def`    *)
(* functions that contain no `await`: each runs to completion on the one   *)
(* event loop before any other handler runs.  The worker is scheduled      *)
(* with BackgroundTasks.add_task and starts after the response of          *)
(* /generate has been sent, so other handlers can run between a submit     *)
(* and the start of its worker, but not between two stages of a worker.    *)
(* The worker is modelled stage by stage; `running` is the task whose      *)
(* worker holds the event loop (0 when the loop is free).                  *)
(***************************************************************************)
EXTENDS Integers, Sequences, FiniteSets, TLC

\* ---------------------------------------------------------------- bounds
MaxTasks == 2
\* checkpoint loads of one model name (a name is loaded again only after
\* unload_model)
MaxLoads == 2
\* num_runs of a /benchmark request
MaxRuns == 2
\* frames in a video file or in a tensor handed to the encoder
MaxVideoFrames == 3
\* largest frame limit passed to a decoder
MaxLimit == 4

\* ------------------------------------------------------ program constants
max_frames == 100

TaskIds == 1..MaxTasks
KnownModels == {"motion_clone", "fomm"}
\* model_name is a free query parameter of /generate, /benchmark and
\* /model/switch: "bogus" stands for every name that is not a known variant
RequestNames == KnownModels \cup {"bogus"}
\* what loading the checkpoint of a known model does: "missing", no file at
\* the default path (model_loader.py:56); "corrupt", load_motion_clone_model
\* or load_fomm_model raises (torch.load or load_state_dict on a malformed
\* file; as motion_clone.py and fomm_model.py stand, also the NameError of
\* their `os.path.exists`, for neither module imports os); "ok", the load
\* function returns the model
CkptStates == {"ok", "missing", "corrupt"}
\* frames in an uploaded driving video: none (empty or corrupt) or some
FrameCounts == {0, 3}
\* payloads of POST /generate: the content types pass or fail the checks; the
\* video and the model name of a rejected payload are never looked at
GeneratePayloads ==
    {[ct_image |-> TRUE, ct_video |-> TRUE, k |-> k, model_name |-> n] :
        k \in FrameCounts, n \in RequestNames}
    \cup {[ct_image |-> a, ct_video |-> b, k |-> 3, model_name |-> "motion_clone"] :
        a \in BOOLEAN, b \in BOOLEAN}
\* device argument of Motion3DPredictor; api.py passes none ("auto")
Devices == {"auto", "cpu"}

NoHandle == [name |-> "none", gen |-> 0]
NoName == "none"

\* threads that call the ModelManager concurrently
Threads == {"A", "B"}

VARIABLES
    started,        \* startup_event has run
    ckpt,           \* checkpoint resources on disk, by model name
    predictor_loaded, \* api.predictor is not None
    predictor,      \* api.predictor: [model, model_name, device]
    model_manager,  \* the ModelManager singleton
    current_tasks,  \* api.current_tasks: task id -> record
    uploads,        \* files under UPLOAD_DIR: path -> content
    results,        \* files under RESULTS_DIR: path -> content
    pc,             \* position of each task's background worker
    bg_args,        \* model_name argument of each queued or running worker
    running,        \* task whose worker holds the event loop, or 0
    wk,             \* locals of the running worker
    resp,           \* history: the last HTTP response, [op, code]; reset by worker steps
    call,           \* history: the last call made on the ModelManager directly
    threads,        \* threads inside ModelManager.set_current_model
    deadline_passed, \* history: tasks whose deadline went by before they ended
    codec           \* history: the last video decode or encode call and its result

vars == <<started, ckpt, predictor_loaded, predictor, model_manager,
          current_tasks, uploads, results, pc, bg_args, running, wk,
          resp, call, threads, deadline_passed, codec>>

\* --------------------------------------------------------------- helpers
Min(a, b) == IF a < b THEN a ELSE b

\* dict assignment d[k] = v
Put(d, k, v) == [x \in DOMAIN d \cup {k} |-> IF x = k THEN v ELSE d[x]]
\* del d[k]
Del(d, k) == [x \in DOMAIN d \ {k} |-> d[x]]

source_path(t) == <<t, "source">>
driving_path(t) == <<t, "driving">>
output_path(t) == <<t, "output">>
final_path(t) == <<t, "final">>

\* file contents: an image, or a video of k frames
ImageFile == [kind |-> "image", frames |-> 0, complete |-> TRUE]
VideoFile(k) == [kind |-> "video", frames |-> k, complete |-> TRUE]

\* locals of a worker: the decoded inputs, the handle inference was invoked
\* on and its output
NoLocals == [source_tensor |-> FALSE, driving_tensor |-> 0,
             invoked_on |-> NoHandle, output_tensor |-> 0]

\* ---------------------------------------------------------- ModelManager
ModelManagerInit ==
    [loaded_models |-> [n \in {} |-> NoHandle],
     current_model |-> NoHandle,
     current_model_name |-> NoName,
     ckpt_loads |-> [n \in KnownModels |-> 0]]

\* mutant: a cached name is loaded from its checkpoint again
load_model_reload(mm, model_name) ==
    IF model_name \notin KnownModels
    THEN [mm |-> mm, raised |-> "Unknown model", model |-> NoHandle]
    ELSE IF ckpt[model_name] = "missing"
    THEN [mm |-> mm, raised |-> "Model not found", model |-> NoHandle]
    ELSE IF ckpt[model_name] = "corrupt"
    THEN [mm |-> mm, raised |-> "checkpoint load error", model |-> NoHandle]
    ELSE LET h == [name |-> model_name, gen |-> mm.ckpt_loads[model_name] + 1]
         IN [mm |-> [mm EXCEPT !.loaded_models = Put(@, model_name, h),
                               !.ckpt_loads[model_name] = @ + 1],
             raised |-> "", model |-> h]

\* mutant: the name is entered in the cache before its checkpoint is found
load_model_eager_cache(mm, model_name) ==
    IF model_name \in DOMAIN mm.loaded_models
    THEN [mm |-> mm, raised |-> "", model |-> mm.loaded_models[model_name]]
    ELSE IF model_name \notin KnownModels
    THEN [mm |-> [mm EXCEPT !.loaded_models = Put(@, model_name, NoHandle)],
          raised |-> "Unknown model", model |-> NoHandle]
    ELSE IF ckpt[model_name] = "missing"
    THEN [mm |-> [mm EXCEPT !.loaded_models = Put(@, model_name, NoHandle)],
          raised |-> "Model not found", model |-> NoHandle]
    ELSE IF ckpt[model_name] = "corrupt"
    THEN [mm |-> mm, raised |-> "checkpoint load error", model |-> NoHandle]
    ELSE LET h == [name |-> model_name, gen |-> mm.ckpt_loads[model_name] + 1]
         IN [mm |-> [mm EXCEPT !.loaded_models = Put(@, model_name, h),
                               !.ckpt_loads[model_name] = @ + 1],
             raised |-> "", model |-> h]

\* load_model(model_name): result [mm, raised, model].  An unknown name
\* raises in _get_default_model_path, before the file is looked for
load_model(mm, model_name) ==
    IF model_name \in DOMAIN mm.loaded_models
    THEN [mm |-> mm, raised |-> "", model |-> mm.loaded_models[model_name]]
    ELSE IF model_name \notin KnownModels
    THEN [mm |-> mm, raised |-> "Unknown model", model |-> NoHandle]
    ELSE IF ckpt[model_name] = "missing"
    THEN [mm |-> mm, raised |-> "Model not found", model |-> NoHandle]
    ELSE IF ckpt[model_name] = "corrupt"
    THEN [mm |-> mm, raised |-> "checkpoint load error", model |-> NoHandle]
    ELSE LET h == [name |-> model_name, gen |-> mm.ckpt_loads[model_name] + 1]
         IN [mm |-> [mm EXCEPT !.loaded_models = Put(@, model_name, h),
                               !.ckpt_loads[model_name] = @ + 1],
             raised |-> "", model |-> h]

\* mutant: making a name current drops the handle that was current
set_current_model_evicting(mm, model_name) ==
    LET l == IF model_name \notin DOMAIN mm.loaded_models
             THEN load_model(mm, model_name)
             ELSE [mm |-> mm, raised |-> "", model |-> NoHandle]
    IN IF l.raised # ""
       THEN [mm |-> mm, raised |-> l.raised, model |-> NoHandle]
       ELSE LET h == l.mm.loaded_models[model_name]
                kept == IF mm.current_model_name \in DOMAIN l.mm.loaded_models \ {model_name}
                        THEN Del(l.mm.loaded_models, mm.current_model_name)
                        ELSE l.mm.loaded_models
            IN [mm |-> [l.mm EXCEPT !.loaded_models = kept,
                                    !.current_model = h,
                                    !.current_model_name = model_name],
                raised |-> "", model |-> h]

\* set_current_model(model_name): result [mm, raised, model]
set_current_model(mm, model_name) ==
    LET l == IF model_name \notin DOMAIN mm.loaded_models
             THEN load_model(mm, model_name)
             ELSE [mm |-> mm, raised |-> "", model |-> NoHandle]
    IN IF l.raised # ""
       THEN [mm |-> mm, raised |-> l.raised, model |-> NoHandle]
       ELSE LET h == l.mm.loaded_models[model_name]
            IN [mm |-> [l.mm EXCEPT !.current_model = h,
                                    !.current_model_name = model_name],
                raised |-> "", model |-> h]

get_current_model(mm) == mm.current_model

\* mutant: the cache entry goes, the current pointer stays
unload_model_keep_current(mm, model_name) ==
    IF model_name \in DOMAIN mm.loaded_models
    THEN [mm EXCEPT !.loaded_models = Del(@, model_name)]
    ELSE mm

\* mutant: unloading any cached name resets the current pointer
unload_model_always_clear(mm, model_name) ==
    IF model_name \in DOMAIN mm.loaded_models
    THEN [mm EXCEPT !.loaded_models = Del(@, model_name),
                    !.current_model = NoHandle,
                    !.current_model_name = NoName]
    ELSE mm

\* unload_model(model_name): the manager afterwards (it raises nothing)
unload_model(mm, model_name) ==
    IF model_name \in DOMAIN mm.loaded_models
    THEN IF mm.current_model_name = model_name
         THEN [mm EXCEPT !.loaded_models = Del(@, model_name),
                         !.current_model = NoHandle,
                         !.current_model_name = NoName]
         ELSE [mm EXCEPT !.loaded_models = Del(@, model_name)]
    ELSE mm

\* mutant: the predictor records the default name, whatever it loaded
Motion3DPredictor_default_name(mm, model_name, device) ==
    LET l == load_model(mm, model_name)
    IN [mm |-> l.mm, raised |-> l.raised,
        predictor |-> [model |-> l.model, model_name |-> "motion_clone",
                       device |-> device]]

\* Motion3DPredictor(model_name, device): result [mm, raised, predictor]
Motion3DPredictor(mm, model_name, device) ==
    LET l == load_model(mm, model_name)
    IN [mm |-> l.mm, raised |-> l.raised,
        predictor |-> [model |-> l.model, model_name |-> model_name,
                       device |-> device]]

NoPredictor == [model |-> NoHandle, model_name |-> NoName, device |-> "auto"]

\* mutant: the switch renames the predictor but keeps its old model
switch_to_stale(mm, p, model_name) ==
    LET s == set_current_model(mm, model_name)
    IN IF s.raised # ""
       THEN [mm |-> mm, raised |-> s.raised, predictor |-> p]
       ELSE [mm |-> s.mm, raised |-> "",
             predictor |-> [p EXCEPT !.model_name = model_name]]

\* mutant: the predictor takes the new name before the registry is asked
switch_to_name_first(mm, p, model_name) ==
    LET s == set_current_model(mm, model_name)
    IN IF s.raised # ""
       THEN [mm |-> mm, raised |-> s.raised,
             predictor |-> [p EXCEPT !.model_name = model_name]]
       ELSE [mm |-> s.mm, raised |-> "",
             predictor |-> [p EXCEPT !.model = get_current_model(s.mm),
                                     !.model_name = model_name]]

\* "Switch model if needed" block shared by the worker, /benchmark and
\* /model/switch: result [mm, raised, predictor]
switch_to(mm, p, model_name) ==
    LET s == set_current_model(mm, model_name)
    IN IF s.raised # ""
       THEN [mm |-> mm, raised |-> s.raised, predictor |-> p]
       ELSE [mm |-> s.mm, raised |-> "",
             predictor |-> [p EXCEPT !.model = get_current_model(s.mm),
                                     !.model_name = model_name]]

\* mutant: the worker keeps whatever model the predictor is on
switch_if_needed_skip(mm, p, model_name) ==
    [mm |-> mm, raised |-> "", predictor |-> p]

switch_if_needed(mm, p, model_name) ==
    IF p.model_name # model_name
    THEN switch_to(mm, p, model_name)
    ELSE [mm |-> mm, raised |-> "", predictor |-> p]

\* an HTTP response: the handler that sent it and its status code
Response(op, code) == [op |-> op, code |-> code]
NoResponse == Response("none", 0)

\* a call on the ModelManager: the method, its argument, the error it
\* raised ("" when it returned) and the handle it returned
Call(op, model_name, raised, model) ==
    [op |-> op, name |-> model_name, raised |-> raised, model |-> model]
NoCall == Call("none", NoName, "", NoHandle)

\* a thread outside set_current_model that has made no call yet
Idle == [pc |-> "idle", name |-> NoName, model |-> NoHandle, raised |-> ""]

\* a call of a video decode or encode function: the function, its inputs
\* (the video or the frames handed in, whether a frame limit was given and
\* the limit, the predictor's device or the build's cast), the frames it
\* returned or wrote and the error it raised
CodecCall(op, input, given, limit, env, output, raised) ==
    [op |-> op, input |-> input, given |-> given, limit |-> limit,
     env |-> env, output |-> output, raised |-> raised]
NoCodecCall ==
    CodecCall("none", [opened |-> FALSE, frames |-> <<>>], FALSE, 0, "cpu", <<>>, "")

\* ------------------------------------------------------------------ Init
Init ==
    /\ started = FALSE
    /\ ckpt \in [KnownModels -> CkptStates]
    /\ predictor_loaded = FALSE
    /\ predictor \in {[NoPredictor EXCEPT !.device = d] : d \in Devices}
    /\ model_manager = ModelManagerInit
    /\ current_tasks = [t \in {} |-> [status |-> "processing", progress |-> 0]]
    /\ uploads = [p \in {} |-> ImageFile]
    /\ results = [p \in {} |-> VideoFile(0)]
    /\ pc = [t \in TaskIds |-> "none"]
    /\ bg_args = [t \in TaskIds |-> NoName]
    /\ running = 0
    /\ wk = NoLocals
    /\ resp = NoResponse
    /\ call = NoCall
    /\ threads = [th \in Threads |-> Idle]
    /\ deadline_passed = {}
    /\ codec = NoCodecCall

\* ------------------------------------------------------------ startup
\* mutant: startup gives up after the default model
startup_event_no_fallback ==
    /\ ~started
    /\ started' = TRUE
    /\ LET a == Motion3DPredictor(model_manager, "motion_clone", predictor.device)
       IN IF a.raised = ""
          THEN /\ predictor' = a.predictor
               /\ predictor_loaded' = TRUE
               /\ model_manager' = a.mm
          ELSE /\ predictor' = predictor
               /\ predictor_loaded' = FALSE
               /\ model_manager' = model_manager
    /\ resp' = NoResponse
    /\ UNCHANGED <<call, threads, codec, deadline_passed, ckpt, current_tasks, uploads, results, pc,
                   bg_args, running, wk>>

startup_event ==
    /\ ~started
    /\ started' = TRUE
    /\ LET a == Motion3DPredictor(model_manager, "motion_clone", predictor.device)
           b == Motion3DPredictor(model_manager, "fomm", predictor.device)
       IN IF a.raised = ""
          THEN /\ predictor' = a.predictor
               /\ predictor_loaded' = TRUE
               /\ model_manager' = a.mm
          ELSE IF b.raised = ""
          THEN /\ predictor' = b.predictor
               /\ predictor_loaded' = TRUE
               /\ model_manager' = b.mm
          ELSE /\ predictor' = predictor
               /\ predictor_loaded' = FALSE
               /\ model_manager' = model_manager
    /\ resp' = NoResponse
    /\ UNCHANGED <<call, threads, codec, deadline_passed, ckpt, current_tasks, uploads, results, pc,
                   bg_args, running, wk>>

\* ------------------------------------------------------------ /generate
\* mutant: the content types are validated before the predictor check
generate_code_validate_first(loaded, ct_image, ct_video) ==
    IF ~ct_image THEN 400
    ELSE IF ~ct_video THEN 400
    ELSE IF ~loaded THEN 503
    ELSE 200

\* status code of POST /generate: the predictor check, then the two
\* content-type checks
generate_code(loaded, ct_image, ct_video) ==
    IF ~loaded THEN 503
    ELSE IF ~ct_image THEN 400
    ELSE IF ~ct_video THEN 400
    ELSE 200

\* mutant: the uploaded files are saved before the content types are checked
generate_uploads_before_check(up, code, t, k) ==
    IF code \in {200, 400}
    THEN Put(Put(up, source_path(t), ImageFile), driving_path(t), VideoFile(k))
    ELSE up

\* the uploaded files are saved only once both checks have passed
generate_uploads(up, code, t, k) ==
    IF code = 200
    THEN Put(Put(up, source_path(t), ImageFile),
             driving_path(t), VideoFile(k))
    ELSE up

\* mutant: the record starts in a status of its own
initial_record_queued == [status |-> "queued", progress |-> 0]

\* mutant: the record starts half way
initial_record_half == [status |-> "processing", progress |-> 50]

\* "Initialize task status"
initial_record == [status |-> "processing", progress |-> 0]

\* mutant: the submit rebinds the store to a dict holding the new record
generate_tasks_rebind(tasks, code, t) ==
    IF code = 200 THEN Put([x \in {} |-> initial_record], t, initial_record) ELSE tasks

generate_tasks(tasks, code, t) ==
    IF code = 200 THEN Put(tasks, t, initial_record) ELSE tasks

\* mutant: the first stage of the worker runs inside the request
add_task_inline(pcs, code, t) ==
    IF code = 200 THEN [pcs EXCEPT ![t] = "p25"] ELSE pcs

\* background_tasks.add_task: the worker is queued, no stage of it runs
add_task(pcs, code, t) ==
    IF code = 200 THEN [pcs EXCEPT ![t] = "scheduled"] ELSE pcs

\* uuid4: an id no task has had
FreshId(t) ==
    /\ t \in TaskIds
    /\ pc[t] = "none"
    /\ \A u \in TaskIds : u < t => pc[u] # "none"

generate_motion(ct_image, ct_video, k, model_name) ==
    /\ started /\ running = 0
    /\ \E t \in TaskIds \cup {0} :
        LET code == generate_code(predictor_loaded, ct_image, ct_video)
        IN    /\ IF code = 200 THEN FreshId(t) ELSE t = 0
              /\ uploads' = generate_uploads(uploads, code, t, k)
              /\ current_tasks' = generate_tasks(current_tasks, code, t)
              /\ pc' = add_task(pc, code, t)
              /\ bg_args' = IF code = 200
                            THEN [bg_args EXCEPT ![t] = model_name]
                            ELSE bg_args
              /\ resp' = Response("generate", code)
    /\ UNCHANGED <<call, threads, codec, deadline_passed, started, ckpt, predictor_loaded, predictor, model_manager,
                   results, running, wk>>

\* ------------------------------------------------ process_motion_transfer
error_record(cause) == [status |-> "error", error |-> cause, progress |-> 0]

\* mutant: the completed record carries an (empty) error field
completed_record_with_error(path) ==
    [status |-> "completed", progress |-> 100, output_path |-> path, error |-> ""]

completed_record(path) ==
    [status |-> "completed", progress |-> 100, output_path |-> path]

\* mutant: the exception is swallowed without touching the record
on_exception_lost(tasks, t, cause) == tasks

\* except Exception as e: the record is replaced by the error record
on_exception(tasks, t, cause) == Put(tasks, t, error_record(cause))

\* mutant: a failed task is put back on the queue
Raise_retry(t, cause) ==
    /\ current_tasks' = on_exception(current_tasks, t, cause)
    /\ pc' = [pc EXCEPT ![t] = "scheduled"]
    /\ bg_args' = bg_args
    /\ running' = 0
    /\ wk' = NoLocals
    /\ resp' = NoResponse

\* a stage of task t's worker raised `cause`
Raise(t, cause) ==
    /\ current_tasks' = on_exception(current_tasks, t, cause)
    /\ pc' = [pc EXCEPT ![t] = "done"]
    /\ bg_args' = [bg_args EXCEPT ![t] = NoName]
    /\ running' = 0
    /\ wk' = NoLocals
    /\ resp' = NoResponse

\* a stage of task t's worker returned
Advance(t, to) ==
    /\ pc' = [pc EXCEPT ![t] = to]
    /\ bg_args' = bg_args
    /\ running' = t
    /\ resp' = NoResponse

\* current_tasks[task_id]["status"] = "processing"; ["progress"] = 25
WorkerStart(t) ==
    /\ started /\ running = 0
    /\ pc[t] = "scheduled"
    /\ IF t \notin DOMAIN current_tasks
       THEN Raise(t, "KeyError")
       ELSE /\ current_tasks' = [current_tasks EXCEPT
                                   ![t].status = "processing",
                                   ![t].progress = 25]
            /\ wk' = NoLocals
            /\ Advance(t, "p25")
    /\ UNCHANGED <<call, threads, codec, deadline_passed, started, ckpt, predictor_loaded, predictor, model_manager,
                   uploads, results>>

\* "Switch model if needed", then progress = 50
WorkerSwitch(t) ==
    /\ running = t /\ pc[t] = "p25"
    /\ LET s == switch_if_needed(model_manager, predictor, bg_args[t])
       IN IF s.raised # ""
          THEN /\ Raise(t, s.raised)
               /\ UNCHANGED <<predictor, model_manager>>
          ELSE /\ predictor' = s.predictor
               /\ model_manager' = s.mm
               /\ current_tasks' = [current_tasks EXCEPT ![t].progress = 50]
               /\ wk' = wk
               /\ Advance(t, "p50")
    /\ UNCHANGED <<call, threads, codec, deadline_passed, started, ckpt, predictor_loaded, uploads, results>>

\* preprocess_image: Image.open(...).convert, transform, .to(self.device);
\* "" when it returns, else the error it raises.  `readable` is whether PIL
\* can decode the bytes of the file
preprocess_image(up, path, readable, device) ==
    IF path \notin DOMAIN up THEN "image file not found"
    ELSE IF ~readable THEN "cannot identify image file"
    ELSE IF device = "auto" THEN "invalid device string"
    ELSE ""

\* frames extracted by the read loop of preprocess_video
extracted_frames(up, path, limit) ==
    IF path \notin DOMAIN up THEN 0 ELSE Min(up[path].frames, limit)

\* preprocess_video: "" when it returns, else the error it raises
preprocess_video(up, path, device) ==
    IF extracted_frames(up, path, max_frames) = 0
    THEN "No frames could be extracted from video"
    ELSE IF device = "auto" THEN "invalid device string"
    ELSE ""

WorkerDecodeImage(t) ==
    /\ running = t /\ pc[t] = "p50"
    /\ \E readable \in BOOLEAN :
        LET e == preprocess_image(uploads, source_path(t), readable, predictor.device)
        IN IF e # ""
           THEN Raise(t, e)
           ELSE /\ wk' = [wk EXCEPT !.source_tensor = TRUE]
                /\ Advance(t, "image")
                /\ UNCHANGED current_tasks
    /\ UNCHANGED <<call, threads, codec, deadline_passed, started, ckpt, predictor_loaded, predictor, model_manager,
                   uploads, results>>

WorkerDecodeVideo(t) ==
    /\ running = t /\ pc[t] = "image"
    /\ LET e == preprocess_video(uploads, driving_path(t), predictor.device)
       IN IF e # ""
          THEN Raise(t, e)
          ELSE /\ wk' = [wk EXCEPT !.driving_tensor =
                            extracted_frames(uploads, driving_path(t), max_frames)]
               /\ Advance(t, "video")
               /\ UNCHANGED current_tasks
    /\ UNCHANGED <<call, threads, codec, deadline_passed, started, ckpt, predictor_loaded, predictor, model_manager,
                   uploads, results>>

\* the handle generate_motion calls: self.model
inference_model(p) == p.model

\* output_tensor = self.model(source_tensor, driving_tensor): one output
\* frame per driving frame, or the capability raises
WorkerInfer(t) ==
    /\ running = t /\ pc[t] = "video"
    /\ \E ok \in BOOLEAN :
        IF ~ok
        THEN Raise(t, "inference error")
        ELSE /\ wk' = [wk EXCEPT !.invoked_on = inference_model(predictor),
                                 !.output_tensor = wk.driving_tensor]
             /\ Advance(t, "inferred")
             /\ UNCHANGED current_tasks
    /\ UNCHANGED <<call, threads, codec, deadline_passed, started, ckpt, predictor_loaded, predictor, model_manager,
                   uploads, results>>

\* _save_output_video to output_path, then progress = 75; a failing
\* mimsave may leave a partial file behind
WorkerEncode(t) ==
    /\ running = t /\ pc[t] = "inferred"
    /\ \E outcome \in {"ok", "raise", "raise_partial"} :
        IF outcome = "ok"
        THEN /\ results' = Put(results, output_path(t), VideoFile(wk.output_tensor))
             /\ current_tasks' = [current_tasks EXCEPT ![t].progress = 75]
             /\ wk' = wk
             /\ Advance(t, "p75")
        ELSE /\ results' = IF outcome = "raise_partial"
                           THEN Put(results, output_path(t),
                                    [VideoFile(wk.output_tensor) EXCEPT !.complete = FALSE])
                           ELSE results
             /\ Raise(t, "encode error")
    /\ UNCHANGED <<call, threads, codec, deadline_passed, started, ckpt, predictor_loaded, predictor, model_manager,
                   uploads>>

\* shutil.move(result_path, final_path)
move(files, from, to) == Del(Put(files, to, files[from]), from)

WorkerMove(t) ==
    /\ running = t /\ pc[t] = "p75"
    /\ \E ok \in BOOLEAN :
        IF ok
        THEN /\ results' = move(results, output_path(t), final_path(t))
             /\ wk' = wk
             /\ Advance(t, "moved")
             /\ UNCHANGED current_tasks
        ELSE /\ results' = results
             /\ Raise(t, "move error")
    /\ UNCHANGED <<call, threads, codec, deadline_passed, started, ckpt, predictor_loaded, predictor, model_manager,
                   uploads>>

\* os.remove(source_path)
WorkerRemoveSource(t) ==
    /\ running = t /\ pc[t] = "moved"
    /\ \E ok \in BOOLEAN :
        IF ok
        THEN /\ uploads' = Del(uploads, source_path(t))
             /\ wk' = wk
             /\ Advance(t, "removed_source")
             /\ UNCHANGED current_tasks
        ELSE /\ uploads' = uploads
             /\ Raise(t, "remove error")
    /\ UNCHANGED <<call, threads, codec, deadline_passed, started, ckpt, predictor_loaded, predictor, model_manager,
                   results>>

\* mutant: the driving video is never removed
WorkerRemoveDriving_skip(t) ==
    /\ running = t /\ pc[t] = "removed_source"
    /\ uploads' = uploads
    /\ wk' = wk
    /\ Advance(t, "removed_driving")
    /\ UNCHANGED current_tasks
    /\ UNCHANGED <<call, threads, codec, deadline_passed, started, ckpt, predictor_loaded, predictor, model_manager,
                   results>>

\* os.remove(driving_path)
WorkerRemoveDriving(t) ==
    /\ running = t /\ pc[t] = "removed_source"
    /\ \E ok \in BOOLEAN :
        IF ok
        THEN /\ uploads' = Del(uploads, driving_path(t))
             /\ wk' = wk
             /\ Advance(t, "removed_driving")
             /\ UNCHANGED current_tasks
        ELSE /\ uploads' = uploads
             /\ Raise(t, "remove error")
    /\ UNCHANGED <<call, threads, codec, deadline_passed, started, ckpt, predictor_loaded, predictor, model_manager,
                   results>>

\* current_tasks[task_id] = {"status": "completed", ...}; the worker returns
WorkerComplete(t) ==
    /\ running = t /\ pc[t] = "removed_driving"
    /\ current_tasks' = Put(current_tasks, t, completed_record(final_path(t)))
    /\ pc' = [pc EXCEPT ![t] = "done"]
    /\ bg_args' = [bg_args EXCEPT ![t] = NoName]
    /\ running' = 0
    /\ wk' = NoLocals
    /\ resp' = NoResponse
    /\ UNCHANGED <<call, threads, codec, deadline_passed, started, ckpt, predictor_loaded, predictor, model_manager,
                   uploads, results>>

WorkerStep(t) ==
    \/ WorkerSwitch(t)
    \/ WorkerDecodeImage(t)
    \/ WorkerDecodeVideo(t)
    \/ WorkerInfer(t)
    \/ WorkerEncode(t)
    \/ WorkerMove(t)
    \/ WorkerRemoveSource(t)
    \/ WorkerRemoveDriving(t)
    \/ WorkerComplete(t)

\* ------------------------------------------------------- other handlers
\* GET /task/{task_id}
get_task_status(t) ==
    /\ started /\ running = 0
    /\ resp' = Response("get_task", IF t \in DOMAIN current_tasks THEN 200 ELSE 404)
    /\ UNCHANGED <<call, threads, codec, deadline_passed, started, ckpt, predictor_loaded, predictor, model_manager,
                   current_tasks, uploads, results, pc, bg_args, running, wk>>

\* mutant: a task that is not completed is reported as not found
download_code_not_found(tasks, files, t) ==
    IF t \notin DOMAIN tasks THEN 404
    ELSE IF tasks[t].status # "completed" THEN 404
    ELSE IF tasks[t].output_path \notin DOMAIN files THEN 404
    ELSE 200

\* status code of GET /download/{task_id}
download_code(tasks, files, t) ==
    IF t \notin DOMAIN tasks THEN 404
    ELSE IF tasks[t].status # "completed" THEN 400
    ELSE IF tasks[t].output_path \notin DOMAIN files THEN 404
    ELSE 200

\* mutant: a successful download drops the record
download_result_consuming(t) ==
    /\ started /\ running = 0
    /\ resp' = Response("download", download_code(current_tasks, results, t))
    /\ current_tasks' = IF download_code(current_tasks, results, t) = 200
                        THEN Del(current_tasks, t) ELSE current_tasks
    /\ UNCHANGED <<call, threads, codec, deadline_passed, started, ckpt, predictor_loaded, predictor, model_manager,
                   uploads, results, pc, bg_args, running, wk>>

download_result(t) ==
    /\ started /\ running = 0
    /\ resp' = Response("download", download_code(current_tasks, results, t))
    /\ UNCHANGED <<call, threads, codec, deadline_passed, started, ckpt, predictor_loaded, predictor, model_manager,
                   current_tasks, uploads, results, pc, bg_args, running, wk>>

\* mutant: deleting an id that is not stored succeeds
cleanup_task_lenient(t) ==
    /\ started /\ running = 0
    /\ IF t \notin DOMAIN current_tasks
       THEN /\ resp' = Response("cleanup", 200)
            /\ UNCHANGED <<current_tasks, results>>
       ELSE /\ results' = IF /\ "output_path" \in DOMAIN current_tasks[t]
                             /\ current_tasks[t].output_path \in DOMAIN results
                          THEN Del(results, current_tasks[t].output_path)
                          ELSE results
            /\ current_tasks' = Del(current_tasks, t)
            /\ resp' = Response("cleanup", 200)
    /\ UNCHANGED <<call, threads, codec, deadline_passed, started, ckpt, predictor_loaded, predictor, model_manager,
                   uploads, pc, bg_args, running, wk>>

\* DELETE /task/{task_id}
cleanup_task(t) ==
    /\ started /\ running = 0
    /\ IF t \notin DOMAIN current_tasks
       THEN /\ resp' = Response("cleanup", 404)
            /\ UNCHANGED <<current_tasks, results>>
       ELSE /\ results' = IF /\ "output_path" \in DOMAIN current_tasks[t]
                             /\ current_tasks[t].output_path \in DOMAIN results
                          THEN Del(results, current_tasks[t].output_path)
                          ELSE results
            /\ current_tasks' = Del(current_tasks, t)
            /\ resp' = Response("cleanup", 200)
    /\ UNCHANGED <<call, threads, codec, deadline_passed, started, ckpt, predictor_loaded, predictor, model_manager,
                   uploads, pc, bg_args, running, wk>>

\* GET /tasks
list_tasks ==
    /\ started /\ running = 0
    /\ resp' = Response("list_tasks", 200)
    /\ UNCHANGED <<call, threads, codec, deadline_passed, started, ckpt, predictor_loaded, predictor, model_manager,
                   current_tasks, uploads, results, pc, bg_args, running, wk>>

\* GET /models: one entry per known name, or 503 without a predictor
get_available_models ==
    /\ started /\ running = 0
    /\ resp' = Response("models", IF predictor_loaded THEN 200 ELSE 503)
    /\ UNCHANGED <<call, threads, codec, deadline_passed, started, ckpt, predictor_loaded, predictor, model_manager,
                   current_tasks, uploads, results, pc, bg_args, running, wk>>

\* GET /model/current (the handler get_current_model of api.py):
\* predictor.get_model_info(), or 503 without a predictor
api_get_current_model ==
    /\ started /\ running = 0
    /\ resp' = Response("model_current", IF predictor_loaded THEN 200 ELSE 503)
    /\ UNCHANGED <<call, threads, codec, deadline_passed, started, ckpt, predictor_loaded, predictor, model_manager,
                   current_tasks, uploads, results, pc, bg_args, running, wk>>

\* POST /model/switch/{model_name}
switch_model(model_name) ==
    /\ started /\ running = 0
    /\ IF ~predictor_loaded
       THEN /\ resp' = Response("switch_model", 503)
            /\ UNCHANGED <<predictor, model_manager>>
       ELSE IF model_name \notin KnownModels
       THEN /\ resp' = Response("switch_model", 400)
            /\ UNCHANGED <<predictor, model_manager>>
       ELSE LET s == switch_to(model_manager, predictor, model_name)
            IN /\ predictor' = s.predictor
               /\ model_manager' = s.mm
               /\ resp' = Response("switch_model", IF s.raised = "" THEN 200 ELSE 500)
    /\ UNCHANGED <<call, threads, codec, deadline_passed, started, ckpt, predictor_loaded, current_tasks, uploads,
                   results, pc, bg_args, running, wk>>

\* the response of POST /benchmark with, as history, how often
\* benchmark_performance decoded each input and, for each call of
\* self.model, the number of the decode its inputs came from
BenchmarkResponse(code, b) ==
    [op |-> "benchmark", code |-> code, image_decodes |-> b.image_decodes,
     video_decodes |-> b.video_decodes, calls |-> b.calls]
NoBenchmark == [image_decodes |-> 0, video_decodes |-> 0, calls |-> <<>>,
                raised |-> ""]

\* the inputs of /benchmark as saved to its temporary files
benchmark_files(k) == Put(Put(<<>>, "image", ImageFile), "video", VideoFile(k))

\* for i in range(num_runs): output = self.model(source_tensor,
\* driving_tensor).  `fail_at` is the run in which the model raises (0: in
\* none); `decode` numbers the decode the tensors came from
RECURSIVE benchmark_loop(_, _, _, _, _)
benchmark_loop(i, num_runs, fail_at, decode, calls) ==
    IF i >= num_runs THEN [calls |-> calls, raised |-> ""]
    ELSE IF fail_at = i + 1
    THEN [calls |-> Append(calls, decode), raised |-> "inference error"]
    ELSE benchmark_loop(i + 1, num_runs, fail_at, decode, Append(calls, decode))

\* mutant: the inputs are decoded anew in every run
RECURSIVE benchmark_loop_redecode(_, _, _, _)
benchmark_loop_redecode(i, num_runs, fail_at, calls) ==
    IF i >= num_runs THEN [calls |-> calls, raised |-> ""]
    ELSE IF fail_at = i + 1
    THEN [calls |-> Append(calls, i + 1), raised |-> "inference error"]
    ELSE benchmark_loop_redecode(i + 1, num_runs, fail_at, Append(calls, i + 1))

benchmark_performance_redecode(files, readable, device, num_runs, fail_at) ==
    LET e1 == preprocess_image(files, "image", readable, device)
        e2 == preprocess_video(files, "video", device)
    IN IF e1 # ""
       THEN [image_decodes |-> 1, video_decodes |-> 0, calls |-> <<>>, raised |-> e1]
       ELSE IF e2 # ""
       THEN [image_decodes |-> 1, video_decodes |-> 1, calls |-> <<>>, raised |-> e2]
       ELSE LET l == benchmark_loop_redecode(0, num_runs, fail_at, <<>>)
            IN [image_decodes |-> Len(l.calls), video_decodes |-> Len(l.calls),
                calls |-> l.calls,
                raised |-> IF l.raised # "" THEN l.raised
                           ELSE IF num_runs <= 0
                           THEN "min() arg is an empty sequence"
                           ELSE ""]

\* benchmark_performance(test_image, test_video, num_runs): "Preprocess
\* once", the timed loop, then the statistics; min(times) raises when the
\* loop ran no iteration
benchmark_performance(files, readable, device, num_runs, fail_at) ==
    LET e1 == preprocess_image(files, "image", readable, device)
        e2 == preprocess_video(files, "video", device)
    IN IF e1 # ""
       THEN [image_decodes |-> 1, video_decodes |-> 0, calls |-> <<>>, raised |-> e1]
       ELSE IF e2 # ""
       THEN [image_decodes |-> 1, video_decodes |-> 1, calls |-> <<>>, raised |-> e2]
       ELSE LET l == benchmark_loop(0, num_runs, fail_at, 1, <<>>)
            IN [image_decodes |-> 1, video_decodes |-> 1, calls |-> l.calls,
                raised |-> IF l.raised # "" THEN l.raised
                           ELSE IF num_runs <= 0
                           THEN "min() arg is an empty sequence"
                           ELSE ""]

\* the inputs of a /benchmark request: the frames of the video, whether
\* the image is readable, num_runs and the run in which the model raises
\* (0: none; it matters only when both inputs decode and it is within
\* num_runs)
BenchmarkInputs ==
    {[k |-> 3, readable |-> TRUE, num_runs |-> r, fail_at |-> f] :
        r \in 0..MaxRuns, f \in 0..MaxRuns}
    \cup {[k |-> 0, readable |-> TRUE, num_runs |-> 1, fail_at |-> 0],
          [k |-> 3, readable |-> FALSE, num_runs |-> 1, fail_at |-> 0]}

\* the requests with num_runs = 1 whose inputs are good files and whose
\* run does not raise
SingleRunInputs ==
    {in \in BenchmarkInputs :
        in.num_runs = 1 /\ in.fail_at = 0 /\ in.k > 0 /\ in.readable}

\* POST /benchmark: the inputs go to temporary files that the finally
\* block unlinks; an exception of the switch or of benchmark_performance
\* leaves the handler (500)
benchmark_model(model_name, in) ==
    /\ started /\ running = 0
    /\ IF ~predictor_loaded
       THEN /\ resp' = BenchmarkResponse(503, NoBenchmark)
            /\ UNCHANGED <<predictor, model_manager>>
       ELSE LET s == switch_if_needed(model_manager, predictor, model_name)
                b == benchmark_performance(benchmark_files(in.k), in.readable,
                                           predictor.device, in.num_runs,
                                           in.fail_at)
            IN /\ predictor' = s.predictor
               /\ model_manager' = s.mm
               /\ resp' = IF s.raised # ""
                          THEN BenchmarkResponse(500, NoBenchmark)
                          ELSE BenchmarkResponse(IF b.raised = "" THEN 200 ELSE 500, b)
    /\ UNCHANGED <<call, threads, codec, deadline_passed, started, ckpt, predictor_loaded, current_tasks, uploads,
                   results, pc, bg_args, running, wk>>

\* RESULTS_DIR is a directory of the host: a file in it can be deleted by
\* something other than the service (the case os.path.exists guards in
\* download_result and cleanup_task)
ResultFileDeleted(path) ==
    /\ started /\ running = 0
    /\ path \in DOMAIN results
    /\ results' = Del(results, path)
    /\ resp' = NoResponse
    /\ UNCHANGED <<call, threads, codec, deadline_passed, started, ckpt, predictor_loaded, predictor,
                   model_manager, current_tasks, uploads, pc, bg_args,
                   running, wk>>

Next ==
    \/ startup_event
    \/ \E p \in GeneratePayloads :
            generate_motion(p.ct_image, p.ct_video, p.k, p.model_name)
    \/ \E t \in TaskIds : WorkerStart(t)
    \/ \E t \in TaskIds : WorkerStep(t)
    \/ \E t \in TaskIds : get_task_status(t)
    \/ \E t \in TaskIds : download_result(t)
    \/ \E t \in TaskIds : cleanup_task(t)
    \/ list_tasks
    \/ \E model_name \in RequestNames : switch_model(model_name)
    \/ \E model_name \in RequestNames, in \in SingleRunInputs :
            benchmark_model(model_name, in)
    \/ \E t \in TaskIds : ResultFileDeleted(final_path(t))

Spec == Init /\ [][Next]_vars
\* fairness: the event loop runs every queued worker and, once a worker
\* has started, runs it to its end
FairSpec ==
    /\ Spec
    /\ \A t \in TaskIds : WF_vars(WorkerStart(t)) /\ WF_vars(WorkerStep(t))

\* ------------------------------------------- the ModelManager on its own
\* The registry as a library object: any sequence of load_model,
\* set_current_model, unload_model and get_current_model calls, made one
\* after the other with any name.
\* a checkpoint load this call may perform stays within MaxLoads
WithinMaxLoads(model_name) ==
    (model_name \in KnownModels
        /\ model_name \notin DOMAIN model_manager.loaded_models) =>
            model_manager.ckpt_loads[model_name] < MaxLoads

ModelManager_load_model(model_name) ==
    /\ WithinMaxLoads(model_name)
    /\ LET r == load_model(model_manager, model_name)
       IN /\ model_manager' = r.mm
          /\ call' = Call("load_model", model_name, r.raised, r.model)
    /\ UNCHANGED <<threads, codec, deadline_passed, started, ckpt, predictor_loaded, predictor,
                   current_tasks, uploads, results, pc, bg_args, running,
                   wk, resp>>

ModelManager_set_current_model(model_name) ==
    /\ WithinMaxLoads(model_name)
    /\ LET r == set_current_model(model_manager, model_name)
       IN /\ model_manager' = r.mm
          /\ call' = Call("set_current_model", model_name, r.raised, r.model)
    /\ UNCHANGED <<threads, codec, deadline_passed, started, ckpt, predictor_loaded, predictor,
                   current_tasks, uploads, results, pc, bg_args, running,
                   wk, resp>>

ModelManager_unload_model(model_name) ==
    /\ model_manager' = unload_model(model_manager, model_name)
    /\ call' = Call("unload_model", model_name, "", NoHandle)
    /\ UNCHANGED <<threads, codec, deadline_passed, started, ckpt, predictor_loaded, predictor,
                   current_tasks, uploads, results, pc, bg_args, running,
                   wk, resp>>

ModelManager_get_current_model ==
    /\ call' = Call("get_current_model", NoName, "",
                    get_current_model(model_manager))
    /\ UNCHANGED <<threads, codec, deadline_passed, started, ckpt, predictor_loaded, predictor,
                   model_manager, current_tasks, uploads, results, pc,
                   bg_args, running, wk, resp>>

RegistryNext ==
    \/ \E model_name \in RequestNames : ModelManager_load_model(model_name)
    \/ \E model_name \in RequestNames : ModelManager_set_current_model(model_name)
    \/ \E model_name \in RequestNames : ModelManager_unload_model(model_name)
    \/ ModelManager_get_current_model

RegistrySpec == Init /\ [][RegistryNext]_vars

\* --------------------------- the service with an operator on the registry
\* get_model_manager hands the one ModelManager to any caller in the
\* process: besides the handlers and the workers, an operator unloads
\* models on it directly.
\* unload_model(model_name), as long as the name can be loaded once more
\* within MaxLoads
Operator_unload_model(model_name) ==
    /\ model_name \in KnownModels =>
            model_manager.ckpt_loads[model_name] < MaxLoads
    /\ ModelManager_unload_model(model_name)

CacheNext ==
    \/ startup_event
    \/ \E model_name \in RequestNames :
            generate_motion(TRUE, TRUE, 3, model_name)
    \/ \E t \in TaskIds : WorkerStart(t)
    \/ \E t \in TaskIds : WorkerStep(t)
    \/ \E model_name \in RequestNames : switch_model(model_name)
    \/ \E model_name \in RequestNames :
            benchmark_model(model_name, [k |-> 3, readable |-> TRUE,
                                         num_runs |-> 1, fail_at |-> 0])
    \/ \E model_name \in RequestNames : Operator_unload_model(model_name)

CacheSpec == Init /\ [][CacheNext]_vars

\* -------------------------------- set_current_model called from threads
\* The ModelManager is one object shared through get_model_manager and has
\* no lock: threads that call set_current_model interleave statement by
\* statement.  A thread's record holds its position (the line it is about
\* to run), its argument, its local `model` and, once it is back at "idle",
\* what the call returned or raised.
ThreadVarsUnchanged ==
    UNCHANGED <<call, codec, deadline_passed, started, ckpt, predictor_loaded, predictor,
                current_tasks, uploads, results, pc, bg_args, running, wk,
                resp>>

\* the call raised: the exception leaves set_current_model
ThreadRaise(th, cause) ==
    threads' = [threads EXCEPT ![th] = [pc |-> "idle", name |-> @.name,
                                        model |-> NoHandle, raised |-> cause]]

ThreadGoto(th, line) == threads' = [threads EXCEPT ![th].pc = line]

\* a thread enters set_current_model(model_name)
Thread_call(th, model_name) ==
    /\ threads[th].pc = "idle"
    /\ threads' = [threads EXCEPT ![th] = [pc |-> "l82", name |-> model_name,
                                           model |-> NoHandle, raised |-> ""]]
    /\ UNCHANGED model_manager
    /\ ThreadVarsUnchanged

\* line 82: if model_name not in self.loaded_models: self.load_model(...)
Thread_l82(th) ==
    /\ threads[th].pc = "l82"
    /\ ThreadGoto(th, IF threads[th].name \notin DOMAIN model_manager.loaded_models
                      THEN "l48" ELSE "l85")
    /\ UNCHANGED model_manager
    /\ ThreadVarsUnchanged

\* load_model line 48: if model_name in self.loaded_models: return it
Thread_l48(th) ==
    /\ threads[th].pc = "l48"
    /\ ThreadGoto(th, IF threads[th].name \in DOMAIN model_manager.loaded_models
                      THEN "l85" ELSE "l53")
    /\ UNCHANGED model_manager
    /\ ThreadVarsUnchanged

\* load_model lines 53-65: the default path, the file test and the load
\* function, which builds a new model object
Thread_l53(th) ==
    /\ threads[th].pc = "l53"
    /\ LET n == threads[th].name
       IN IF n \notin KnownModels
          THEN ThreadRaise(th, "Unknown model") /\ UNCHANGED model_manager
          ELSE IF ckpt[n] = "missing"
          THEN ThreadRaise(th, "Model not found") /\ UNCHANGED model_manager
          ELSE IF ckpt[n] = "corrupt"
          THEN ThreadRaise(th, "checkpoint load error") /\ UNCHANGED model_manager
          ELSE /\ threads' = [threads EXCEPT
                      ![th].pc = "l67",
                      ![th].model = [name |-> n,
                                     gen |-> model_manager.ckpt_loads[n] + 1]]
               /\ model_manager' = [model_manager EXCEPT !.ckpt_loads[n] = @ + 1]
    /\ ThreadVarsUnchanged

\* load_model line 67: self.loaded_models[model_name] = model
Thread_l67(th) ==
    /\ threads[th].pc = "l67"
    /\ model_manager' = [model_manager EXCEPT
            !.loaded_models = Put(@, threads[th].name, threads[th].model)]
    /\ ThreadGoto(th, "l85")
    /\ ThreadVarsUnchanged

\* line 85: self.current_model = self.loaded_models[model_name]
Thread_l85(th) ==
    /\ threads[th].pc = "l85"
    /\ IF threads[th].name \in DOMAIN model_manager.loaded_models
       THEN /\ model_manager' = [model_manager EXCEPT !.current_model =
                    model_manager.loaded_models[threads[th].name]]
            /\ ThreadGoto(th, "l86")
       ELSE ThreadRaise(th, "KeyError") /\ UNCHANGED model_manager
    /\ ThreadVarsUnchanged

\* lines 86-89: self.current_model_name = model_name;
\* return self.current_model
Thread_l86(th) ==
    /\ threads[th].pc = "l86"
    /\ model_manager' = [model_manager EXCEPT
            !.current_model_name = threads[th].name]
    /\ threads' = [threads EXCEPT ![th].pc = "idle",
                                  ![th].model = model_manager.current_model]
    /\ ThreadVarsUnchanged

ThreadNext ==
    \E th \in Threads :
        \/ \E model_name \in RequestNames : Thread_call(th, model_name)
        \/ Thread_l82(th)
        \/ Thread_l48(th)
        \/ Thread_l53(th)
        \/ Thread_l67(th)
        \/ Thread_l85(th)
        \/ Thread_l86(th)

ThreadSpec == Init /\ [][ThreadNext]_vars

\* ------------------------------------------------ /benchmark among tasks
\* /benchmark with every num_runs up to MaxRuns, between the submits and
\* the workers of tasks
BenchmarkNext ==
    \/ startup_event
    \/ \E model_name \in RequestNames :
            generate_motion(TRUE, TRUE, 3, model_name)
    \/ \E t \in TaskIds : WorkerStart(t)
    \/ \E t \in TaskIds : WorkerStep(t)
    \/ \E model_name \in RequestNames, in \in BenchmarkInputs :
            benchmark_model(model_name, in)

BenchmarkSpec == Init /\ [][BenchmarkNext]_vars

\* ------------------------------------------------- deadlines of tasks
\* POST /generate declares no deadline parameter (FastAPI drops a query
\* parameter the handler does not declare) and nothing in api.py reads a
\* clock: the deadline a client sent with a task goes by without any step
\* of the program.  deadline_passed records the tasks for which that
\* happened before their worker had ended.
DeadlinePasses(t) ==
    /\ pc[t] \notin {"none", "done"}
    /\ t \notin deadline_passed
    /\ deadline_passed' = deadline_passed \cup {t}
    /\ UNCHANGED <<started, ckpt, predictor_loaded, predictor, model_manager,
                   current_tasks, uploads, results, pc, bg_args, running, wk,
                   resp, call, threads, codec>>

DeadlineNext ==
    \/ startup_event
    \/ \E p \in GeneratePayloads :
            generate_motion(p.ct_image, p.ct_video, p.k, p.model_name)
    \/ \E t \in TaskIds : WorkerStart(t)
    \/ \E t \in TaskIds : WorkerStep(t)
    \/ \E t \in TaskIds : get_task_status(t)
    \/ \E t \in TaskIds : DeadlinePasses(t)

DeadlineSpec == Init /\ [][DeadlineNext]_vars

\* ------------------------------------------- the model endpoints
\* The endpoints that need a predictor, after a startup with any state of
\* the two checkpoints.
StartupNext ==
    \/ startup_event
    \/ \E p \in GeneratePayloads :
            generate_motion(p.ct_image, p.ct_video, p.k, p.model_name)
    \/ \E t \in TaskIds : WorkerStart(t)
    \/ \E t \in TaskIds : WorkerStep(t)
    \/ get_available_models
    \/ api_get_current_model
    \/ \E model_name \in RequestNames : switch_model(model_name)
    \/ \E model_name \in RequestNames, in \in SingleRunInputs :
            benchmark_model(model_name, in)

StartupSpec == Init /\ [][StartupNext]_vars

\* ------------------------------------------- video decoding and encoding
\* The decode and encode functions of predictor.py and
\* utils/video_processing.py as functions of their inputs.  A video file
\* is whether cv2 can open it and the frames cap.read() yields, in
\* presentation order; a frame is named by a number.  A tensor value x is
\* held as the integer 2x (values -1.5, -1, ..., 1.5).
SeqsUpTo(S, n) == UNION {[1..m -> S] : m \in 0..n}
Frames == 1..MaxVideoFrames
Videos == [opened : BOOLEAN, frames : SeqsUpTo(Frames, MaxVideoFrames)]
TensorValues == -3..3
Tensors == SeqsUpTo(TensorValues, MaxVideoFrames)
\* what a cast of an out-of-range float to uint8 gives, by build
Casts == {"wrap", "saturate"}

\* self.transform(Image.fromarray(cvtColor(frame))): the normalized tensor
\* of one frame
transform(frame) == [tensor_of |-> frame]

\* the read loop of preprocess_video (predictor.py:76-89)
RECURSIVE preprocess_video_loop(_, _, _, _)
preprocess_video_loop(video, limit, frames, frame_count) ==
    IF ~(video.opened /\ frame_count < limit) THEN frames
    ELSE IF frame_count + 1 > Len(video.frames) THEN frames
    ELSE preprocess_video_loop(video, limit,
            Append(frames, transform(video.frames[frame_count + 1])),
            frame_count + 1)

\* Motion3DPredictor.preprocess_video(video_path, max_frames) on a
\* predictor of this device: [frames, raised]
preprocess_video_frames(video, limit, device) ==
    LET frames == preprocess_video_loop(video, limit, <<>>, 0)
    IN IF frames = <<>>
       THEN [frames |-> <<>>, raised |-> "No frames could be extracted from video"]
       ELSE IF device = "auto"
       THEN [frames |-> <<>>, raised |-> "invalid device string"]
       ELSE [frames |-> frames, raised |-> ""]

\* the read loop of extract_frames (video_processing.py:30-39); the limit
\* applies when max_frames is given and is not 0
RECURSIVE extract_frames_loop(_, _, _, _, _)
extract_frames_loop(video, given, limit, frames, frame_count) ==
    IF ~video.opened THEN frames
    ELSE IF frame_count + 1 > Len(video.frames) THEN frames
    ELSE LET fs == Append(frames, video.frames[frame_count + 1])
         IN IF given /\ limit # 0 /\ frame_count + 1 >= limit
            THEN fs
            ELSE extract_frames_loop(video, given, limit, fs, frame_count + 1)

\* VideoProcessor.extract_frames(video_path, max_frames): it raises nothing
extract_frames(video, given, limit) ==
    [frames |-> extract_frames_loop(video, given, limit, <<>>, 0), raised |-> ""]

\* float to integer, towards zero
Trunc(num, den) == IF num >= 0 THEN num \div den ELSE -((-num) \div den)

\* ndarray.astype(np.uint8) of the float num/den: the integer part when it
\* fits; otherwise the conversion is undefined and gives the low byte or
\* the nearest bound, by build
astype_uint8(num, den, cast) ==
    LET t == Trunc(num, den)
    IN IF t \in 0..255 THEN t
       ELSE IF cast = "wrap" THEN t % 256
       ELSE IF t < 0 THEN 0 ELSE 255

\* torch.clamp(x, lo, hi)
clamp(x, lo, hi) == IF x < lo THEN lo ELSE IF x > hi THEN hi ELSE x

\* _save_output_video lines 169-176 for one value x = v/2:
\* (x + 1.0) / 2.0 is (v + 2)/4, clamped to [0, 1], times 255, to uint8
save_output_pixel(v, cast) == astype_uint8(clamp(v + 2, 0, 4) * 255, 4, cast)

\* mutant: the loop starts at the second frame
RECURSIVE save_output_frame_list_skip(_, _, _, _)
save_output_frame_list_skip(frames, i, frame_list, cast) ==
    IF i + 1 >= Len(frames) THEN frame_list
    ELSE save_output_frame_list_skip(frames, i + 1,
            Append(frame_list, save_output_pixel(frames[i + 2], cast)), cast)

\* for i in range(frames.shape[0]): frame_list.append(...)
RECURSIVE save_output_frame_list(_, _, _, _)
save_output_frame_list(frames, i, frame_list, cast) ==
    IF i >= Len(frames) THEN frame_list
    ELSE save_output_frame_list(frames, i + 1,
            Append(frame_list, save_output_pixel(frames[i + 1], cast)), cast)

\* VideoProcessor.denormalize_frames for one value y = v/2: (y * 255) to
\* uint8, with no clamp
denormalize_pixel(v, cast) == astype_uint8(v * 255, 2, cast)

denormalize_frames(frames, cast) ==
    [i \in 1..Len(frames) |-> denormalize_pixel(frames[i], cast)]

\* for frame in frames: out.write(frame)
RECURSIVE save_frames_loop(_, _, _)
save_frames_loop(frames, i, written) ==
    IF i >= Len(frames) THEN written
    ELSE save_frames_loop(frames, i + 1, Append(written, frames[i + 1]))

\* the functions are pure: each is called once, from the initial state
CodecVarsUnchanged ==
    /\ codec = NoCodecCall
    /\ UNCHANGED <<started, ckpt, predictor_loaded, predictor, model_manager,
                   current_tasks, uploads, results, pc, bg_args, running, wk,
                   resp, call, threads, deadline_passed>>

Codec_preprocess_video(video, limit, device) ==
    /\ LET r == preprocess_video_frames(video, limit, device)
       IN codec' = CodecCall("preprocess_video", video, TRUE, limit, device,
                             r.frames, r.raised)
    /\ CodecVarsUnchanged

Codec_extract_frames(video, given, limit) ==
    /\ LET r == extract_frames(video, given, limit)
       IN codec' = CodecCall("extract_frames", video, given, limit, "cpu",
                             r.frames, r.raised)
    /\ CodecVarsUnchanged

\* _save_output_video(output_tensor, output_path): the frames that
\* imageio.mimsave wrote, or its error
Codec_save_output_video(tensor, cast, ok) ==
    /\ LET frame_list == save_output_frame_list(tensor, 0, <<>>, cast)
       IN codec' = CodecCall("save_output_video",
                             [opened |-> TRUE, frames |-> tensor], FALSE, 0, cast,
                             IF ok THEN frame_list ELSE <<>>,
                             IF ok THEN "" ELSE "encode error")
    /\ CodecVarsUnchanged

\* VideoProcessor.save_frames(frames, output_path)
Codec_save_frames(frames) ==
    /\ codec' = IF frames = <<>>
                THEN CodecCall("save_frames", [opened |-> TRUE, frames |-> frames],
                               FALSE, 0, "cpu", <<>>, "No frames to save")
                ELSE CodecCall("save_frames", [opened |-> TRUE, frames |-> frames],
                               FALSE, 0, "cpu", save_frames_loop(frames, 0, <<>>), "")
    /\ CodecVarsUnchanged

Codec_denormalize_frames(frames, cast) ==
    /\ codec' = CodecCall("denormalize_frames",
                          [opened |-> TRUE, frames |-> frames], FALSE, 0, cast,
                          denormalize_frames(frames, cast), "")
    /\ CodecVarsUnchanged

CodecNext ==
    \/ \E video \in Videos, limit \in 0..MaxLimit, device \in Devices :
            Codec_preprocess_video(video, limit, device)
    \/ \E video \in Videos, given \in BOOLEAN, limit \in 0..MaxLimit :
            Codec_extract_frames(video, given, limit)
    \/ \E tensor \in Tensors, cast \in Casts, ok \in BOOLEAN :
            Codec_save_output_video(tensor, cast, ok)
    \/ \E frames \in SeqsUpTo(Frames, MaxVideoFrames) : Codec_save_frames(frames)
    \/ \E frames \in Tensors, cast \in Casts : Codec_denormalize_frames(frames, cast)

\* a service that has not started
CodecInit ==
    /\ Init
    /\ ckpt = [n \in KnownModels |-> "ok"]
    /\ predictor = NoPredictor

CodecSpec == CodecInit /\ [][CodecNext]_vars

\* =================================================================
\* Properties
\* =================================================================
Terminal(rec) == rec.status \in {"completed", "error"}
StatusOf(tasks, t) == IF t \in DOMAIN tasks THEN tasks[t].status ELSE "absent"

\* C1: once a task's record is completed or error, no step changes any
\* field of it; the only step that ends that state is cleanup_task(t),
\* which deletes the whole record.
C1_TerminalIsFinal ==
    [][\A t \in TaskIds :
        (t \in DOMAIN current_tasks /\ Terminal(current_tasks[t])) =>
            IF t \in DOMAIN current_tasks'
            THEN current_tasks'[t] = current_tasks[t]
            ELSE cleanup_task(t)]_vars

C1_Witness ==
    \E t \in DOMAIN current_tasks, u \in TaskIds :
        /\ current_tasks[t].status = "completed"
        /\ u # t /\ pc[u] = "done"
        /\ resp = Response("download", 200)

\* C2: every task accepted by /generate eventually has a record in a
\* terminal status, whatever stage of its worker fails.
C2_EventuallyTerminal ==
    \A t \in TaskIds :
        (pc[t] = "scheduled") ~>
            (pc[t] = "done" /\ t \in DOMAIN current_tasks
                /\ Terminal(current_tasks[t]))

C2_Witness ==
    \E t \in DOMAIN current_tasks :
        /\ pc[t] = "done"
        /\ current_tasks[t] = error_record("move error")

\* the errors each worker position can raise
CausesAt(p) ==
    CASE p = "scheduled" -> {"KeyError"}
      [] p = "p25" -> {"Unknown model", "Model not found", "checkpoint load error"}
      [] p = "p50" -> {"image file not found", "cannot identify image file",
                       "invalid device string"}
      [] p = "image" -> {"No frames could be extracted from video",
                         "invalid device string"}
      [] p = "video" -> {"inference error"}
      [] p = "inferred" -> {"encode error"}
      [] p = "p75" -> {"move error"}
      [] p \in {"moved", "removed_source"} -> {"remove error"}
      [] OTHER -> {}

\* C3: when a stage of a task's worker raises, the record becomes the
\* error record carrying the cause and the worker ends; a worker that has
\* ended never runs a stage again.
C3_RaiseFailsTask ==
    [][\A t \in TaskIds :
        /\ (StatusOf(current_tasks', t) = "error"
                /\ StatusOf(current_tasks, t) # "error") =>
              /\ pc'[t] = "done"
              /\ current_tasks'[t].error \in CausesAt(pc[t])
        /\ (pc[t] \notin {"none", "done", "removed_driving"} /\ pc'[t] = "done") =>
              /\ t \in DOMAIN current_tasks'
              /\ \E c \in CausesAt(pc[t]) : current_tasks'[t] = error_record(c)
        /\ pc[t] = "done" => pc'[t] = "done"]_vars

C3_Witness ==
    \E t \in DOMAIN current_tasks :
        /\ pc[t] = "done"
        /\ current_tasks[t] = error_record("inference error")

\* C4: the handle a task's inference is invoked on is the handle cached
\* under the model name the task was submitted with.
C4_InferenceOnOwnModel ==
    \A t \in TaskIds :
        /\ pc[t] = "video" =>
              /\ bg_args[t] \in DOMAIN model_manager.loaded_models
              /\ inference_model(predictor) = model_manager.loaded_models[bg_args[t]]
        /\ pc[t] \in {"inferred", "p75", "moved", "removed_source", "removed_driving"} =>
              /\ bg_args[t] \in DOMAIN model_manager.loaded_models
              /\ wk.invoked_on = model_manager.loaded_models[bg_args[t]]
              /\ wk.invoked_on.name = bg_args[t]

C4_Witness ==
    \E t \in TaskIds, u \in DOMAIN current_tasks :
        /\ pc[t] = "inferred" /\ bg_args[t] = "fomm"
        /\ wk.invoked_on.name = "fomm"
        /\ u # t /\ current_tasks[u].status = "completed"
        /\ "motion_clone" \in DOMAIN model_manager.loaded_models

C6_SubmitReturnsFirst ==
    [][\A t \in TaskIds :
        (pc[t] = "none" /\ pc'[t] # "none") =>
            /\ pc'[t] = "scheduled"
            /\ running' = 0
            /\ resp' = Response("generate", 200)
            /\ current_tasks'[t] = initial_record]_vars

C6_Witness ==
    \E t \in DOMAIN current_tasks :
        /\ pc[t] = "scheduled"
        /\ resp = Response("generate", 200)
        /\ current_tasks[t].progress = 0

\* C7: a /generate whose source is not an image or whose driving file is
\* not a video is answered 400 and leaves the task store, the queue of
\* workers and both file stores as they were.
C7_RejectedSubmitChangesNothing ==
    [][\A p \in GeneratePayloads :
        (/\ predictor_loaded
         /\ ~p.ct_image \/ ~p.ct_video
         /\ generate_motion(p.ct_image, p.ct_video, p.k, p.model_name)) =>
            /\ resp' = Response("generate", 400)
            /\ UNCHANGED <<current_tasks, uploads, results, pc, bg_args>>]_vars

C7_Witness ==
    /\ resp = Response("generate", 400)
    /\ DOMAIN current_tasks = {1}
    /\ pc[2] = "none"

\* C8: with no predictor loaded, /generate answers 503 for every payload
\* and creates no record, no worker and no file.
C8_NoModelNoSubmit ==
    [][\A p \in GeneratePayloads :
        (/\ ~predictor_loaded
         /\ generate_motion(p.ct_image, p.ct_video, p.k, p.model_name)) =>
            /\ resp' = Response("generate", 503)
            /\ UNCHANGED <<current_tasks, uploads, results, pc, bg_args>>]_vars

C8_Witness ==
    /\ started /\ ~predictor_loaded
    /\ resp = Response("generate", 503)

\* C9: a record has an output_path only if it is completed and an error
\* only if it is error.
C9_FieldsMatchStatus ==
    \A t \in DOMAIN current_tasks :
        /\ "output_path" \in DOMAIN current_tasks[t] =>
              current_tasks[t].status = "completed"
        /\ "error" \in DOMAIN current_tasks[t] =>
              current_tasks[t].status = "error"

C9_Witness ==
    \E t, u \in DOMAIN current_tasks :
        /\ "output_path" \in DOMAIN current_tasks[t]
        /\ "error" \in DOMAIN current_tasks[u]

\* C10: at the step that makes a task completed its output file is
\* complete at output_path, progress is 100, both input files are gone,
\* and the worker has ended and takes no further step.
C10_CompletedIsLast ==
    [][\A t \in TaskIds :
        /\ (StatusOf(current_tasks', t) = "completed"
                /\ StatusOf(current_tasks, t) # "completed") =>
              /\ current_tasks'[t].output_path \in DOMAIN results'
              /\ results'[current_tasks'[t].output_path].complete
              /\ current_tasks'[t].progress = 100
              /\ source_path(t) \notin DOMAIN uploads'
              /\ driving_path(t) \notin DOMAIN uploads'
              /\ pc'[t] = "done" /\ running' = 0
        /\ (StatusOf(current_tasks, t) = "completed" /\ pc[t] = "done") =>
              pc'[t] = "done"]_vars

C10_Witness ==
    \E t \in DOMAIN current_tasks :
        /\ current_tasks[t] = completed_record(final_path(t))
        /\ final_path(t) \in DOMAIN results
        /\ pc[t] = "done" /\ running = 0

\* files of task t in RESULTS_DIR
ResultFiles(t) == {output_path(t), final_path(t)} \cap DOMAIN results

\* C11 as stated: whenever a task's record is error, both of its uploaded
\* files are still in UPLOAD_DIR.
C11_Original ==
    \A t \in DOMAIN current_tasks :
        current_tasks[t].status = "error" =>
            /\ source_path(t) \in DOMAIN uploads
            /\ driving_path(t) \in DOMAIN uploads

\* errors of a worker that come from the request itself: the record was
\* deleted, the model name cannot be loaded, the image cannot be read
RequestCauses ==
    {"KeyError", "Unknown model", "Model not found", "checkpoint load error",
     "image file not found", "cannot identify image file"}

\* C12 as stated, for a request that is otherwise good: a task whose
\* driving video has no frame never has a file in RESULTS_DIR and ends as
\* the error record that names the video decode failure.
C12_Original ==
    \A t \in TaskIds :
        (/\ driving_path(t) \in DOMAIN uploads
         /\ uploads[driving_path(t)].frames = 0) =>
            /\ ResultFiles(t) = {}
            /\ (/\ pc[t] = "done" /\ t \in DOMAIN current_tasks
                /\ current_tasks[t].status = "error"
                /\ current_tasks[t].error \notin RequestCauses) =>
                   current_tasks[t].error = "No frames could be extracted from video"

\* C13 as stated: with the predictor built as api.py builds it (no device
\* argument), a task whose image is readable, whose driving video has
\* k >= 1 frames and whose model loads does not end in error; it ends
\* completed with progress 100 and an output of min(k, max_frames) frames.
C13_Original ==
    \A t \in DOMAIN current_tasks :
        (pc[t] = "done" /\ predictor.device = "auto") =>
            /\ (/\ current_tasks[t].status = "error"
                /\ driving_path(t) \in DOMAIN uploads
                /\ uploads[driving_path(t)].frames >= 1) =>
                   current_tasks[t].error \in RequestCauses
            /\ (/\ current_tasks[t].status = "completed"
                /\ final_path(t) \in DOMAIN results) =>
                   /\ current_tasks[t].progress = 100
                   /\ results[final_path(t)].frames \in 1..max_frames

\* C14 as stated: cleanup_task on a stored id removes the file its record
\* names and the record, and from then on the id is unknown: the record
\* does not come back and get, download and cleanup answer 404.
C14_Original ==
    [][\A t \in TaskIds :
        /\ (cleanup_task(t) /\ t \in DOMAIN current_tasks) =>
              /\ t \notin DOMAIN current_tasks'
              /\ "output_path" \in DOMAIN current_tasks[t] =>
                    current_tasks[t].output_path \notin DOMAIN results'
              /\ resp' = Response("cleanup", 200)
        /\ (pc[t] # "none" /\ t \notin DOMAIN current_tasks) =>
              /\ t \notin DOMAIN current_tasks'
              /\ (get_task_status(t) \/ download_result(t) \/ cleanup_task(t)) =>
                    resp'.code = 404]_vars

\* C15: GET /download answers 200 only for a completed record whose
\* output file exists, 400 for a record in any other status, 404 for a
\* completed record whose file is gone; it changes no record and no file.
C15_DownloadOnlyCompleted ==
    [][\A t \in TaskIds :
        (download_result(t) /\ t \in DOMAIN current_tasks) =>
            /\ resp'.op = "download"
            /\ resp'.code = 200 <=>
                  /\ current_tasks[t].status = "completed"
                  /\ current_tasks[t].output_path \in DOMAIN results
            /\ current_tasks[t].status # "completed" => resp'.code = 400
            /\ (/\ current_tasks[t].status = "completed"
                /\ current_tasks[t].output_path \notin DOMAIN results) =>
                   resp'.code = 404
            /\ UNCHANGED <<current_tasks, uploads, results>>]_vars

C15_Witness ==
    \E t, u \in DOMAIN current_tasks :
        /\ current_tasks[t].status = "completed"
        /\ current_tasks[t].output_path \notin DOMAIN results
        /\ current_tasks[u].status = "error"
        /\ resp = Response("download", 404)

\* C16: get, download and cleanup of an id that is not in current_tasks
\* answer 404 and change no record and no file.
C16_UnknownIdNotFound ==
    [][\A t \in TaskIds :
        (/\ t \notin DOMAIN current_tasks
         /\ get_task_status(t) \/ download_result(t) \/ cleanup_task(t)) =>
            /\ resp'.code = 404
            /\ UNCHANGED <<current_tasks, uploads, results>>]_vars

C16_Witness ==
    \E t \in TaskIds :
        /\ pc[t] = "done" /\ t \notin DOMAIN current_tasks
        /\ final_path(t) \in DOMAIN results
        /\ resp = Response("cleanup", 404)

\* C17: load_model of a name that is in the cache returns the cached
\* handle, loads no checkpoint, and leaves the cache and the current
\* pointer as they were.
C17_LoadIdempotent ==
    [][\A n \in RequestNames :
        (/\ ModelManager_load_model(n)
         /\ n \in DOMAIN model_manager.loaded_models) =>
            /\ call' = Call("load_model", n, "", model_manager.loaded_models[n])
            /\ model_manager'.ckpt_loads = model_manager.ckpt_loads
            /\ model_manager'.loaded_models = model_manager.loaded_models
            /\ model_manager'.current_model = model_manager.current_model
            /\ model_manager'.current_model_name
                  = model_manager.current_model_name]_vars

C17_Witness ==
    /\ call.op = "load_model" /\ call.raised = ""
    /\ call.model.gen = 2
    /\ model_manager.ckpt_loads[call.name] = 2
    /\ model_manager.current_model_name \notin {NoName, call.name}

\* names load_model finds no checkpoint for: not a known variant, or a
\* known variant whose file is missing
NoCheckpoint(n) == n \notin KnownModels \/ ckpt[n] = "missing"

C19_CurrentIsCached ==
    \/ /\ model_manager.current_model = NoHandle
       /\ model_manager.current_model_name = NoName
    \/ /\ model_manager.current_model_name \in DOMAIN model_manager.loaded_models
       /\ model_manager.current_model
            = model_manager.loaded_models[model_manager.current_model_name]

C19_Witness ==
    /\ call.op = "unload_model" /\ call.name \in KnownModels
    /\ call.name \notin DOMAIN model_manager.loaded_models
    /\ model_manager.ckpt_loads[call.name] = 2
    /\ model_manager.current_model # NoHandle
    /\ model_manager.current_model.gen = 2

\* C20 as stated: while threads call set_current_model, at every instant
\* a reader finds the current handle and the current name to be of the
\* same model (both None, or the handle is the one of that name).
C20_Original ==
    model_manager.current_model.name = model_manager.current_model_name

\* C21: a name enters the cache only by a load of its checkpoint that
\* succeeds, the handle cached under a name is never replaced, and a name
\* leaves the cache only by unload_model of that name: startup, a worker,
\* /benchmark and /model/switch remove nothing, so after a switch to
\* another name the names cached before and the new name are all cached.
C21_CacheOnlyEvictRemoves ==
    [][/\ \A n \in RequestNames :
            LET before == model_manager.loaded_models
                after == model_manager'.loaded_models
            IN /\ (n \in DOMAIN before /\ n \notin DOMAIN after) =>
                      Operator_unload_model(n)
               /\ (n \in DOMAIN before /\ n \in DOMAIN after) =>
                      after[n] = before[n]
               /\ (n \notin DOMAIN before /\ n \in DOMAIN after) =>
                      /\ n \in KnownModels /\ ckpt[n] = "ok"
                      /\ model_manager'.ckpt_loads[n] = model_manager.ckpt_loads[n] + 1
                      /\ after[n] = [name |-> n, gen |-> model_manager'.ckpt_loads[n]]
       /\ \A b \in RequestNames :
            (switch_model(b) /\ resp'.code = 200) =>
                /\ DOMAIN model_manager'.loaded_models
                      = DOMAIN model_manager.loaded_models \cup {b}
                /\ model_manager'.current_model_name = b]_vars

C21_Witness ==
    /\ DOMAIN model_manager.loaded_models = KnownModels
    /\ model_manager.current_model_name = "fomm"
    /\ predictor.model = model_manager.loaded_models["fomm"]
    /\ resp = Response("switch_model", 200)
    /\ model_manager.ckpt_loads["motion_clone"] = 2
    /\ \E t \in DOMAIN current_tasks : current_tasks[t].status = "completed"

\* C22: unload_model(name) removes name's handle from the cache and no
\* other; if name was current the current handle and name become None,
\* otherwise they stay; for a name that is not cached it changes nothing;
\* it never raises.
C22_UnloadEffects ==
    [][\A n \in RequestNames :
        ModelManager_unload_model(n) =>
            /\ call'.raised = ""
            /\ n \notin DOMAIN model_manager'.loaded_models
            /\ \A m \in RequestNames \ {n} :
                  /\ m \in DOMAIN model_manager'.loaded_models
                        <=> m \in DOMAIN model_manager.loaded_models
                  /\ m \in DOMAIN model_manager.loaded_models =>
                        model_manager'.loaded_models[m]
                            = model_manager.loaded_models[m]
            /\ IF n \in DOMAIN model_manager.loaded_models
                    /\ model_manager.current_model_name = n
               THEN /\ model_manager'.current_model = NoHandle
                    /\ model_manager'.current_model_name = NoName
               ELSE /\ model_manager'.current_model = model_manager.current_model
                    /\ model_manager'.current_model_name
                          = model_manager.current_model_name
            /\ n \notin DOMAIN model_manager.loaded_models =>
                  model_manager' = model_manager]_vars

C22_Witness ==
    /\ call.op = "unload_model" /\ call.name = "fomm"
    /\ DOMAIN model_manager.loaded_models = {"motion_clone"}
    /\ model_manager.current_model_name = "motion_clone"
    /\ model_manager.ckpt_loads["fomm"] = 1

\* a switch to this name fails: it is not cached and cannot be loaded
CannotLoad(n) ==
    /\ n \notin DOMAIN model_manager.loaded_models
    /\ n \notin KnownModels \/ ckpt[n] # "ok"

\* what load_model raises for a name that cannot be loaded
LoadError(n) ==
    IF n \notin KnownModels THEN "Unknown model"
    ELSE IF ckpt[n] = "missing" THEN "Model not found"
    ELSE "checkpoint load error"

C30_BenchmarkRunsAndNoTask ==
    [][resp'.op = "benchmark" =>
       \A n \in RequestNames, in \in BenchmarkInputs :
        benchmark_model(n, in) =>
            /\ UNCHANGED <<current_tasks, pc, bg_args, uploads, results>>
            /\ resp'.op = "benchmark"
            /\ resp'.image_decodes <= 1 /\ resp'.video_decodes <= 1
            /\ \A i \in DOMAIN resp'.calls : resp'.calls[i] = 1
            /\ Len(resp'.calls) <= in.num_runs
            /\ resp'.code = 200 =>
                  /\ Len(resp'.calls) = in.num_runs
                  /\ resp'.image_decodes = 1 /\ resp'.video_decodes = 1]_vars

C30_Witness ==
    /\ resp.op = "benchmark" /\ resp.code = 200
    /\ Len(resp.calls) = 2
    /\ \E t, u \in DOMAIN current_tasks :
          /\ current_tasks[t].status = "completed"
          /\ current_tasks[u] = initial_record /\ pc[u] = "scheduled"

\* C24: the progress of a record is always within 0..100; it changes only
\* in a step taken while the record is processing; and from one processing
\* record to the next it never decreases.
C24_ProgressMonotone ==
    [][\A t \in TaskIds :
        /\ t \in DOMAIN current_tasks' =>
              current_tasks'[t].progress \in 0..100
        /\ (t \in DOMAIN current_tasks /\ t \in DOMAIN current_tasks') =>
              /\ current_tasks'[t].progress # current_tasks[t].progress =>
                    current_tasks[t].status = "processing"
              /\ (/\ current_tasks[t].status = "processing"
                  /\ current_tasks'[t].status = "processing") =>
                    current_tasks'[t].progress >= current_tasks[t].progress]_vars

C24_Witness ==
    \E t, u \in DOMAIN current_tasks :
        /\ current_tasks[t].status = "processing"
        /\ current_tasks[t].progress = 75
        /\ current_tasks[u].status = "error" /\ pc[u] = "done"

\* C25 as stated: a task whose deadline went by before it was terminal
\* is Failed with the timeout cause, and stays so whatever its worker
\* writes afterwards: when the worker has ended the record is the timeout
\* error record.
C25_Original ==
    \A t \in deadline_passed :
        pc[t] = "done" =>
            /\ t \in DOMAIN current_tasks
            /\ current_tasks[t] = error_record("timeout")

\* frames cap.read() yields for a video
Decodable(video) == IF video.opened THEN video.frames ELSE <<>>

\* C26 as stated, for frame limits N >= 1: a decode of a video with
\* T >= 1 frames returns, and returns the first min(T, N) frames of the
\* video, in order.
C26_Original ==
    (/\ codec.op \in {"preprocess_video", "extract_frames"}
     /\ codec.given /\ codec.limit >= 1
     /\ Len(Decodable(codec.input)) >= 1) =>
        /\ codec.raised = ""
        /\ Len(codec.output) = Min(Len(Decodable(codec.input)), codec.limit)
        /\ \A i \in 1..Len(codec.output) :
              codec.output[i] = IF codec.op = "preprocess_video"
                                THEN transform(codec.input.frames[i])
                                ELSE codec.input.frames[i]

\* C27 as stated: a decode that returns has returned at least one frame,
\* and a decode that extracts no frame raises the decode error.
C27_Original ==
    codec.op \in {"preprocess_video", "extract_frames"} =>
        /\ codec.raised = "" => codec.output # <<>>
        /\ (\/ Decodable(codec.input) = <<>>
            \/ codec.given /\ codec.limit = 0 /\ codec.op = "preprocess_video") =>
              codec.raised = "No frames could be extracted from video"

\* the display value of the tensor value v/2: (v/2 + 1)/2 kept within
\* [0, 1], as an 8-bit pixel
DisplayValue(v) ==
    IF v <= -2 THEN 0 ELSE IF v >= 2 THEN 255 ELSE ((v + 2) * 255) \div 4

\* C28: an encode that returns has written as many frames as it was
\* given, in the order given: _save_output_video writes for frame i the
\* display value of tensor frame i, save_frames writes frame i itself;
\* save_frames raises only for an empty list.
C28_EncodeKeepsFrames ==
    /\ (codec.op = "save_output_video" /\ codec.raised = "") =>
          /\ Len(codec.output) = Len(codec.input.frames)
          /\ \A i \in 1..Len(codec.input.frames) :
                codec.output[i] = DisplayValue(codec.input.frames[i])
    /\ codec.op = "save_frames" =>
          IF codec.input.frames = <<>>
          THEN codec.raised = "No frames to save" /\ codec.output = <<>>
          ELSE /\ codec.raised = ""
               /\ Len(codec.output) = Len(codec.input.frames)
               /\ \A i \in 1..Len(codec.input.frames) :
                     codec.output[i] = codec.input.frames[i]

C28_Witness ==
    /\ codec.op = "save_output_video" /\ codec.raised = ""
    /\ codec.input.frames = <<-3, 0, 3>>
    /\ codec.output = <<0, 127, 255>>

\* the 8-bit pixel of the value v/2 of a frame normalized to [0, 1],
\* kept within [0, 1]
ClampedPixel(v) ==
    IF v <= 0 THEN 0 ELSE IF v >= 2 THEN 255 ELSE (v * 255) \div 2

\* C29 as stated: every pixel a denormalization produces is the value
\* clamped to the display range, also for values outside the normalized
\* range.
C29_Original ==
    /\ (codec.op = "save_output_video" /\ codec.raised = "") =>
          \A i \in 1..Len(codec.output) :
              codec.output[i] = DisplayValue(codec.input.frames[i])
    /\ codec.op = "denormalize_frames" =>
          \A i \in 1..Len(codec.output) :
              codec.output[i] = ClampedPixel(codec.input.frames[i])

\* the record of the task whose worker holds the event loop
RunningRecord(t) == current_tasks[t]

\* C31 as stated: each checkpoint is published after its stage, in the
\* order decode, model, inference, encode: while a worker runs, a progress
\* of 25 or more means both inputs are decoded, 50 or more that the
\* predictor is on the task's model, 75 or more that the output is encoded.
C31_Original ==
    \A t \in TaskIds :
        (running = t /\ t \in DOMAIN current_tasks) =>
            /\ RunningRecord(t).progress >= 25 =>
                  wk.source_tensor /\ wk.driving_tensor > 0
            /\ RunningRecord(t).progress >= 50 =>
                  predictor.model_name = bg_args[t]
            /\ RunningRecord(t).progress >= 75 =>
                  output_path(t) \in DOMAIN results \/ final_path(t) \in DOMAIN results

\* C31: while a task's worker runs, its stages come in the order model
\* switch, image decode, video decode, inference, encode, move, input
\* removal: 25 is published when the worker starts, before any stage; 50
\* once the predictor is on the task's model and before any decoding; 75
\* once the output file is written; 100 only with the completed record.
C31_StageOrder ==
    /\ \A t \in TaskIds :
        (running = t) =>
            /\ t \in DOMAIN current_tasks
            /\ RunningRecord(t).status = "processing"
            /\ RunningRecord(t).progress \in {25, 50, 75}
            /\ RunningRecord(t).progress = 25 =>
                  wk = NoLocals /\ output_path(t) \notin DOMAIN results
            /\ RunningRecord(t).progress >= 50 =>
                  /\ predictor.model_name = bg_args[t]
                  /\ bg_args[t] \in DOMAIN model_manager.loaded_models
                  /\ predictor.model = model_manager.loaded_models[bg_args[t]]
            /\ wk.source_tensor => RunningRecord(t).progress >= 50
            /\ wk.driving_tensor > 0 => wk.source_tensor
            /\ wk.output_tensor > 0 =>
                  /\ wk.driving_tensor > 0
                  /\ wk.invoked_on = predictor.model
            /\ output_path(t) \in DOMAIN results =>
                  /\ wk.output_tensor > 0
                  /\ results[output_path(t)] = VideoFile(wk.output_tensor)
            /\ RunningRecord(t).progress = 75 <=>
                  output_path(t) \in DOMAIN results \/ final_path(t) \in DOMAIN results
            /\ final_path(t) \in DOMAIN results =>
                  output_path(t) \notin DOMAIN results
            /\ source_path(t) \notin DOMAIN uploads =>
                  final_path(t) \in DOMAIN results
            /\ driving_path(t) \notin DOMAIN uploads =>
                  source_path(t) \notin DOMAIN uploads
    /\ \A t \in DOMAIN current_tasks :
            /\ current_tasks[t].progress = 100 <=> current_tasks[t].status = "completed"
            /\ current_tasks[t].status = "completed" => pc[t] = "done"

C31_Witness ==
    \E t \in TaskIds :
        /\ running = t /\ bg_args[t] = "fomm"
        /\ RunningRecord(t).progress = 50
        /\ predictor.model_name = "fomm"
        /\ wk.source_tensor /\ wk.driving_tensor = 3 /\ wk.output_tensor = 0

\* the record stored under an id, as a sequence: empty when there is none
Stored(tasks, t) == IF t \in DOMAIN tasks THEN <<tasks[t]>> ELSE <<>>

\* C32: a step that changes what is stored under a task id is the submit
\* that creates the record under a fresh id, a stage of that task's own
\* worker, or cleanup_task of that id; a step that removes the record is
\* cleanup_task of that id; and a worker is queued for an id only by the
\* submit that creates it, so each id has one worker.
C32_OnlyOwnWorkerAndDelete ==
    [][\A t \in TaskIds :
        /\ Stored(current_tasks', t) # Stored(current_tasks, t) =>
              \/ /\ pc[t] = "none" /\ pc'[t] = "scheduled"
                 /\ Stored(current_tasks, t) = <<>>
                 /\ Stored(current_tasks', t) = <<initial_record>>
                 /\ resp' = Response("generate", 200)
              \/ /\ pc[t] \notin {"none", "done"}
                 /\ running \in {0, t}
                 /\ WorkerStart(t) \/ WorkerStep(t)
              \/ /\ cleanup_task(t)
                 /\ Stored(current_tasks', t) = <<>>
        /\ (Stored(current_tasks, t) # <<>> /\ Stored(current_tasks', t) = <<>>) =>
              cleanup_task(t)
        /\ (pc'[t] = "scheduled" /\ pc[t] # "scheduled") => pc[t] = "none"
        /\ pc[t] = "done" => pc'[t] = "done"]_vars

C32_Witness ==
    \E t, u \in DOMAIN current_tasks :
        /\ t # u
        /\ running = u /\ current_tasks[u].progress = 75
        /\ pc[t] = "scheduled" /\ current_tasks[t] = initial_record

\* C33 as stated: a record deleted by cleanup_task while the task's worker
\* has not ended stays deleted: no step of that worker stores the id again.
C33_Original ==
    [][\A t \in TaskIds :
        (pc[t] \notin {"none", "done"} /\ t \notin DOMAIN current_tasks) =>
            t \notin DOMAIN current_tasks']_vars

\* C34 as stated, for the files the encoder wrote in full: every such file
\* in the results store is the output of a task whose record is still
\* processing, or of a task whose record is completed and names that file
\* as its output_path; a task whose record is error has left none.
C34_Original ==
    \A path \in DOMAIN results :
        results[path].complete =>
            LET t == path[1]
            IN /\ t \in DOMAIN current_tasks
               /\ \/ current_tasks[t].status = "processing"
                  \/ /\ current_tasks[t].status = "completed"
                     /\ current_tasks[t].output_path = path

\* C35: in the service (startup, /model/switch, /benchmark, the workers),
\* whenever there is a predictor its model is the handle the registry
\* caches under the predictor's model name, and a current model of the
\* registry that is not None is that handle, under that name; without a
\* predictor the registry has no current model.
C35_PredictorMatchesRegistry ==
    /\ predictor_loaded =>
          /\ predictor.model_name \in DOMAIN model_manager.loaded_models
          /\ predictor.model = model_manager.loaded_models[predictor.model_name]
          /\ get_current_model(model_manager) # NoHandle =>
                /\ get_current_model(model_manager) = predictor.model
                /\ model_manager.current_model_name = predictor.model_name
    /\ ~predictor_loaded => get_current_model(model_manager) = NoHandle

C35_Witness ==
    /\ predictor_loaded
    /\ resp.op = "benchmark"
    /\ "fomm" \in DOMAIN model_manager.loaded_models
    /\ model_manager.current_model_name = "motion_clone"
    /\ get_current_model(model_manager) = predictor.model
    /\ predictor.model_name = "motion_clone"

\* the endpoints that answer 503 when there is no predictor
PredictorEndpoints ==
    {"generate", "models", "model_current", "switch_model", "benchmark"}

\* C36: startup always ends (whatever the two checkpoints are): with the
\* predictor on motion_clone when that checkpoint loads, else on fomm when
\* that one loads, else with no predictor; and a service without predictor
\* answers 503 on /generate, /models, /model/current, /model/switch and
\* /benchmark, changing nothing.
C36_StartupFallback ==
    [][/\ ~started => ENABLED startup_event
       /\ (~started /\ started') =>
             IF ckpt["motion_clone"] = "ok"
             THEN /\ predictor_loaded'
                  /\ predictor'.model_name = "motion_clone"
                  /\ predictor'.model.name = "motion_clone"
             ELSE IF ckpt["fomm"] = "ok"
             THEN /\ predictor_loaded'
                  /\ predictor'.model_name = "fomm"
                  /\ predictor'.model.name = "fomm"
             ELSE /\ ~predictor_loaded'
                  /\ predictor' = predictor
                  /\ model_manager' = ModelManagerInit
       /\ (started /\ ~predictor_loaded) =>
             /\ resp'.op \in PredictorEndpoints => resp'.code = 503
             /\ UNCHANGED <<predictor_loaded, predictor, model_manager,
                            current_tasks, uploads, results, pc, bg_args>>]_vars

C36_Witness ==
    /\ started /\ predictor_loaded
    /\ ckpt["motion_clone"] = "corrupt"
    /\ predictor.model_name = "fomm"
    /\ DOMAIN model_manager.loaded_models = {"fomm"}
    /\ resp = Response("model_current", 200)

\* C37 as stated: while threads call set_current_model (and through it
\* load_model) for a name, the checkpoint of the name is loaded at most
\* once, and two calls for the same name that have returned have returned
\* the same handle, which is the one the cache holds.
C37_Original ==
    /\ \A n \in KnownModels : model_manager.ckpt_loads[n] <= 1
    /\ \A a, b \in Threads :
        (/\ threads[a].pc = "idle" /\ threads[b].pc = "idle"
         /\ threads[a].name \in KnownModels
         /\ threads[a].name = threads[b].name
         /\ threads[a].raised = "" /\ threads[b].raised = "") =>
            /\ threads[a].model = threads[b].model
            /\ threads[a].model = model_manager.loaded_models[threads[a].name]
====
